---- MODULE Spec2Model ----
(***************************************************************************)
(* vectorVault: the Supabase-backed VectorDB (app/db_supabase.py) with its *)
(* version history (app/vector_history.py), the stand-alone FAISSIndex     *)
(* (app/faiss_index.py) and the in-memory VectorDB (app/db.py).            *)
(*                                                                         *)
(* Every handler is one atomic action.  A handler that raises leaves in    *)
(* the state whatever it had written before the raise and records the      *)
(* exception's name in last.exc.                                           *)
(***************************************************************************)
EXTENDS Integers, Sequences, FiniteSets, TLC

\* ------------------------------------------------------------------ bounds
\* ids the uuid generator hands out in one run
MaxIds == 2
\* rows ever inserted into vectors_history in one run
MaxSnapshots == 2
\* largest top_k a search is called with
MaxTopK == 2
\* longest texts / metas list handed to batch_add
MaxBatch == 2

\* ------------------------------------------------------------------ values
\* Python's None as a text argument
NoneText == "<None>"
Texts == {"a", "b"}
\* text arguments of update: a text or None (the empty string goes the way of None
\* through every `if text:`)
TextArgs == Texts \cup {NoneText}
Queries == {"a"}

\* A metadata mapping is the set of its <<key, value>> items.
EmptyMeta == {}
MetaX == {<<"category", "x">>}
\* Python's None where a mapping is expected; no mapping has this item
NoneMeta == {<<"<None>", "<None>">>}
Metas == {EmptyMeta, MetaX}
MetaArgs == Metas \cup {NoneMeta}
\* meta_filter arguments of search: no filter, or category = x
Filters == {NoneMeta, MetaX}
\* metas=None of batch_add, kept apart from every list of mappings
NoneMetas == <<NoneMeta>>

\* Python truthiness of a text argument: `if text:`
TruthyText(t) == t \notin {NoneText, ""}
\* Python truthiness of a mapping argument: `if meta:`, `meta or {}`
TruthyMeta(m) == m \notin {NoneMeta, EmptyMeta}
\* `x or {}`
OrEmpty(m) == IF TruthyMeta(m) THEN m ELSE EmptyMeta

\* all(k in meta and meta[k] == v for k, v in meta_filter.items())
MetaMatches(meta, meta_filter) ==
    \A f \in meta_filter : \E m \in meta : m[1] = f[1] /\ m[2] = f[2]

\* ------------------------------------------------------------------ vectors
\* Embeddings are integer vectors of length Scale: unit vectors at scale 5.
Scale == 5
\* SentenceTransformer.encode(text, normalize_embeddings=True)
encode(t) ==
    CASE t = "a" -> <<5, 0>>
      [] t = "b" -> <<3, 4>>
      [] t = "q" -> <<0, 5>>
      [] OTHER -> <<4, 3>>

Dot(u, v) == u[1] * v[1] + u[2] * v[2]
\* np.linalg.norm
Norm(v) == CHOOSE r \in 0..(2 * Scale) : r * r <= Dot(v, v) /\ Dot(v, v) < (r + 1) * (r + 1)
\* faiss.normalize_L2
normalize_L2(v) == IF Norm(v) = 0 THEN v ELSE [i \in 1..Len(v) |-> (v[i] * Scale) \div Norm(v)]
\* cosine similarity, scores at scale Scale * Scale
cosine_similarity(v1, v2) == (Dot(v1, v2) * Scale * Scale) \div (Norm(v1) * Norm(v2))
\* the score faiss gives a slot it pads the result with (-3.4e38)
NegInf == -1000

\* ------------------------------------------------------------------ sequences
Range(s) == {s[i] : i \in 1..Len(s)}
\* Python seq[i] for a 0-based i, negative i counting from the end
PyIndex(s, i) == IF i >= 0 THEN s[i + 1] ELSE s[Len(s) + i + 1]
\* list.index(x): the 0-based position of the first x
ListIndex(s, x) == (CHOOSE i \in 1..Len(s) : s[i] = x /\ \A j \in 1..(i - 1) : s[j] # x) - 1
\* a removal that drops the last entry whatever i is
RemoveAt_last(s, i) == [j \in 1..(Len(s) - 1) |-> s[j]]
\* list.pop(i) / IndexFlat.remove_ids([i]) for a 0-based i: the rest closes up
RemoveAt(s, i) == [j \in 1..(Len(s) - 1) |-> IF j <= i THEN s[j] ELSE s[j + 1]]
\* sequences over S of length 0..n
SeqsUpTo(S, n) == UNION {[1..k -> S] : k \in 0..n}

VARIABLES
    backend,      \* which VectorDB class was constructed: "supabase" or "memory"
    use_faiss,    \* VectorDB.use_faiss (db_supabase)
    vectors,      \* Supabase table "vectors", in scan order
    vectors_history, \* Supabase table "vectors_history", in insertion order
    now,          \* the clock that stamps vectors_history.updated_at
    index,        \* VectorDB.index: [none |-> BOOLEAN, xb |-> stored vectors]
    id_map,       \* VectorDB.id_map
    nextId,       \* the next id uuid4 hands out
    last,         \* the last call: what it was called with and its outcome
    vectors_mem,  \* db.VectorDB.vectors (in-memory class)
    metadata_mem, \* db.VectorDB.metadata (in-memory class)
    pkl,          \* the file save() writes: [exists |-> BOOLEAN, data |-> its content]
    saved,        \* what the saving instance held when save() last ran
    fx,           \* the FAISSIndex object (faiss_index.py) built over the Supabase VectorDB
    deleted,      \* the issued ids a completed delete was called with
    prior,        \* per id, the (text, meta) it had before each update that returned True
                  \* since it was added
    thr           \* per caller thread, the call it is inside: where it stands and its locals

vars == <<backend, use_faiss, vectors, vectors_history, now, index, id_map, nextId,
          last, vectors_mem, metadata_mem, pkl, saved, fx, deleted, prior, thr>>

\* the state of db_supabase.VectorDB and its tables
sbVars == <<use_faiss, vectors, vectors_history, now, index, id_map>>
\* the state of db.VectorDB and its file
memVars == <<vectors_mem, metadata_mem, pkl, saved>>

\* ------------------------------------------------------------------ the Supabase client
\* table.select("*").eq(col, id).execute().data
SelectEq(rows, id) == SelectSeq(rows, LAMBDA r : r.id = id)
\* a delete whose filter matches no row
DeleteEq_matchesNothing(rows, id) == rows
\* table.delete().eq("id", id): the rows left
DeleteEq(rows, id) == SelectSeq(rows, LAMBDA r : r.id # id)
\* a history delete filtered on the snapshot's stamp instead of its vector_id
DeleteHistoryEq_wrongColumn(rows, id) == SelectSeq(rows, LAMBDA r : r.updated_at # id)
\* vectors_history.delete().eq("vector_id", id): the rows left
DeleteHistoryEq(rows, id) == SelectSeq(rows, LAMBDA r : r.vector_id # id)
\* an update whose filter matches every row
UpdateEq_everyRow(rows, id, data) ==
    [i \in 1..Len(rows) |->
        [id |-> rows[i].id,
         text |-> IF data.hasText THEN data.text ELSE rows[i].text,
         meta |-> IF data.hasMeta THEN data.meta ELSE rows[i].meta,
         embedding |-> IF data.hasText THEN data.embedding ELSE rows[i].embedding]]
\* table.update(data).eq("id", id): data holds the columns in `has`
UpdateEq(rows, id, data) ==
    [i \in 1..Len(rows) |->
        IF rows[i].id # id THEN rows[i]
        ELSE [id |-> rows[i].id,
              text |-> IF data.hasText THEN data.text ELSE rows[i].text,
              meta |-> IF data.hasMeta THEN data.meta ELSE rows[i].meta,
              embedding |-> IF data.hasText THEN data.embedding ELSE rows[i].embedding]]

\* the ids uuid4 has handed out
Issued == 1..(nextId - 1)
StoreIds == {vectors[i].id : i \in 1..Len(vectors)}

NoCall ==
    [op |-> "init", id |-> 0, exc |-> "", ok |-> FALSE, ids |-> <<>>, results |-> <<>>,
     texts |-> <<>>, metas |-> <<>>, hasText |-> FALSE, hasMeta |-> FALSE,
     top_k |-> 0, meta_filter |-> NoneMeta, existed |-> FALSE, held |-> 0,
     meta |-> NoneMeta, query |-> ""]

\* an empty dict
EmptyDict == [i \in {} |-> 0]
\* before FAISSIndex(db) is constructed
NoFAISSIndex ==
    [constructed |-> FALSE, index |-> [none |-> TRUE, xb |-> <<>>],
     id_to_idx |-> EmptyDict, idx_to_id |-> EmptyDict, vectors |-> <<>>, metadata |-> <<>>]

\* the threads that call into one VectorDB object
Threads == {1, 2}
\* a thread that is inside no call
Idle == [pc |-> "idle", id |-> 0, text |-> NoneText, meta |-> NoneMeta, old |-> <<>>,
         all_vectors |-> <<>>]

Init ==
    /\ backend \in {"supabase", "memory"}
    /\ thr = [t \in Threads |-> Idle]
    /\ use_faiss \in (IF backend = "supabase" THEN BOOLEAN ELSE {FALSE})
    /\ vectors_mem = <<>>
    /\ metadata_mem = <<>>
    /\ pkl = [exists |-> FALSE, data |-> <<>>]
    /\ saved = [vectors |-> <<>>, metadata |-> <<>>]
    /\ fx = NoFAISSIndex
    /\ vectors = <<>>
    /\ vectors_history = <<>>
    /\ now = 0
    /\ index = [none |-> TRUE, xb |-> <<>>]
    /\ id_map = <<>>
    /\ nextId = 1
    /\ last = NoCall
    /\ deleted = {}
    /\ prior = [i \in 1..MaxIds |-> <<>>]

\* db_supabase.VectorDB(use_faiss=...) over empty tables
InitSupabase == Init /\ backend = "supabase"
\* db_supabase.VectorDB(use_faiss=False), to be handed to a FAISSIndex
InitFaiss == Init /\ backend = "supabase" /\ ~use_faiss
\* db.VectorDB()
InitMemory == Init /\ backend = "memory"
\* db_supabase.VectorDB(use_faiss=True) over empty tables
InitAnn == Init /\ backend = "supabase" /\ use_faiss

\* ------------------------------------------------------------------ db_supabase.VectorDB
\* _get_all(meta_filter): the rows of "vectors" that pass the filter, in scan order
get_all(rows, meta_filter) ==
    SelectSeq(rows, LAMBDA r : ~(TruthyMeta(meta_filter) /\ ~MetaMatches(r.meta, meta_filter)))

\* a build that leaves the store without an index whatever the scan returns
build_faiss_index_noIndex(rows) == [index |-> [none |-> TRUE, xb |-> <<>>], id_map |-> <<>>]

\* _build_faiss_index over the rows a full scan returns: the new index and id_map
build_faiss_index(rows) ==
    LET all_vectors == get_all(rows, NoneMeta)
    IN IF Len(all_vectors) = 0
       THEN [index |-> [none |-> TRUE, xb |-> <<>>], id_map |-> <<>>]
       ELSE [index |-> [none |-> FALSE,
                        xb |-> [i \in 1..Len(all_vectors) |->
                                   normalize_L2(all_vectors[i].embedding)]],
             id_map |-> [i \in 1..Len(all_vectors) |-> all_vectors[i].id]]

\* IndexFlatIP.search picks the min(k, ntotal) slots of largest inner product, best
\* first; the order among equally scored slots is the library's choice.
TopSlots(xb, q, k) ==
    LET n == Len(xb)
        m == IF k < n THEN k ELSE n
    IN {s \in [1..m -> 0..(n - 1)] :
          /\ \A i, j \in 1..m : i # j => s[i] # s[j]
          /\ \A i \in 1..(m - 1) : Dot(q, xb[s[i] + 1]) >= Dot(q, xb[s[i + 1] + 1])
          /\ \A t \in 0..(n - 1) :
                (\A i \in 1..m : s[i] # t)
                    => \A i \in 1..m : Dot(q, xb[s[i] + 1]) >= Dot(q, xb[t + 1])}

\* D, I = index.search(q, k): always k entries; those beyond ntotal are slot -1
IndexSearch(xb, q, k) ==
    {[i \in 1..k |-> IF i <= Len(s)
                     THEN [idx |-> s[i], score |-> Dot(q, xb[s[i] + 1])]
                     ELSE [idx |-> -1, score |-> NegInf]] : s \in TopSlots(xb, q, k)}

\* {"score": score, **row}
Result(score, row) ==
    [score |-> score, id |-> row.id, text |-> row.text, meta |-> row.meta,
     embedding |-> row.embedding]

\* _faiss_search, given what index.search returned: the results, or the exception
faiss_search(hits) ==
    IF index.none \/ Len(id_map) = 0
    THEN [exc |-> "", results |-> <<>>]
    ELSE LET kept == SelectSeq(hits, LAMBDA h : ~(h.idx >= Len(id_map)))
         IN IF \E i \in 1..Len(kept) : SelectEq(vectors, PyIndex(id_map, kept[i].idx)) = <<>>
            THEN [exc |-> "IndexError", results |-> <<>>]
            ELSE [exc |-> "",
                  results |-> [i \in 1..Len(kept) |->
                      Result(kept[i].score,
                             SelectEq(vectors, PyIndex(id_map, kept[i].idx))[1])]]

\* a sort that leaves the list as it was
SortDescStable_unsorted(sims) == sims

\* list.sort(key=score, reverse=True): stable, so equal scores keep their order
SortDescStable(sims) ==
    LET n == Len(sims)
        p == CHOOSE f \in [1..n -> 1..n] :
                /\ \A i, j \in 1..n : i # j => f[i] # f[j]
                /\ \A i, j \in 1..n : i < j =>
                      \/ sims[f[i]].score > sims[f[j]].score
                      \/ sims[f[i]].score = sims[f[j]].score /\ f[i] < f[j]
    IN [i \in 1..n |-> sims[p[i]]]

\* sims[:top_k]
Take(s, k) == [i \in 1..(IF k < Len(s) THEN k ELSE Len(s)) |-> s[i]]

\* the brute-force branch of search
brute_force(q_vec, top_k, meta_filter) ==
    LET all_vectors == get_all(vectors, meta_filter)
        sims == [i \in 1..Len(all_vectors) |->
                    Result(cosine_similarity(q_vec, all_vectors[i].embedding), all_vectors[i])]
    IN Take(SortDescStable(sims), top_k)

search(query, top_k, meta_filter) ==
    /\ backend = "supabase"
    /\ LET q_vec == encode(query)
       IN IF use_faiss
          THEN \E hits \in IndexSearch(index.xb, normalize_L2(q_vec), top_k) :
                 LET r == faiss_search(hits)
                     results == IF TruthyMeta(meta_filter)
                                THEN SelectSeq(r.results,
                                               LAMBDA x : MetaMatches(x.meta, meta_filter))
                                ELSE r.results
                 IN last' = [NoCall EXCEPT !.op = "search", !.exc = r.exc,
                                           !.results = results, !.top_k = top_k,
                                           !.meta_filter = meta_filter,
                                           !.query = query]
          ELSE last' = [NoCall EXCEPT !.op = "search",
                                      !.results = brute_force(q_vec, top_k, meta_filter),
                                      !.top_k = top_k, !.meta_filter = meta_filter,
                                      !.query = query]
    /\ UNCHANGED <<backend, thr, sbVars, memVars, fx, nextId, deleted, prior>>

add(text, meta) ==
    /\ backend = "supabase"
    /\ nextId <= MaxIds
    /\ LET entry_id == nextId
           vector == encode(text)
           row == [id |-> entry_id, text |-> text, meta |-> OrEmpty(meta),
                   embedding |-> vector]
           inserted == Append(vectors, row)
           built == build_faiss_index(inserted)
       IN /\ vectors' = inserted
          /\ nextId' = nextId + 1
          /\ IF use_faiss
             THEN IF index.none
                  THEN index' = built.index /\ id_map' = built.id_map
                  ELSE /\ index' = [index EXCEPT !.xb = Append(@, normalize_L2(vector))]
                       /\ id_map' = Append(id_map, entry_id)
             ELSE UNCHANGED <<index, id_map>>
          /\ last' = [NoCall EXCEPT !.op = "add", !.id = entry_id, !.ids = <<entry_id>>]
    /\ UNCHANGED <<backend, thr, use_faiss, vectors_history, now, memVars, fx, deleted, prior>>

\* VectorHistory.save_version: the table after the insert, stamped with the clock
save_version(rows, vector_record, stamp) ==
    Append(rows, [vector_id |-> vector_record.id,
                  text |-> vector_record.text,
                  meta |-> OrEmpty(vector_record.meta),
                  embedding |-> vector_record.embedding,
                  updated_at |-> stamp])

\* VectorHistory.get_history: the id's rows ordered by updated_at, descending
get_history(vector_id) ==
    LET mine == SelectSeq(vectors_history, LAMBDA r : r.vector_id = vector_id)
        n == Len(mine)
        p == CHOOSE f \in [1..n -> 1..n] :
                /\ \A i, j \in 1..n : i # j => f[i] # f[j]
                /\ \A i, j \in 1..n : i < j => mine[f[i]].updated_at >= mine[f[j]].updated_at
    IN [i \in 1..n |-> mine[p[i]]]

update(entry_id, text, meta) ==
    /\ backend = "supabase"
    /\ LET res == SelectEq(vectors, entry_id)
           call == [NoCall EXCEPT !.op = "update", !.id = entry_id,
                                  !.hasText = TruthyText(text),
                                  !.hasMeta = meta # NoneMeta,
                                  !.meta = meta,
                                  !.existed = res # <<>>]
       IN IF res = <<>>
          THEN /\ last' = [call EXCEPT !.ok = FALSE]
               /\ UNCHANGED <<vectors, vectors_history, now, prior>>
          ELSE /\ now < MaxSnapshots
               /\ LET old == res[1]
                      data == [hasText |-> TruthyText(text),
                               text |-> text,
                               embedding |-> encode(text),
                               hasMeta |-> meta # NoneMeta,
                               meta |-> meta]
                  IN /\ vectors_history' = save_version(vectors_history, old, now + 1)
                     /\ now' = now + 1
                     /\ IF data.hasText \/ data.hasMeta
                        THEN /\ vectors' = UpdateEq(vectors, entry_id, data)
                             /\ IF use_faiss /\ ~index.none /\ entry_id \in Range(id_map)
                                   /\ ~data.hasText
                                THEN \* data["embedding"] is not there
                                     /\ last' = [call EXCEPT !.exc = "KeyError"]
                                     /\ UNCHANGED prior
                                ELSE \* index.reconstruct(idx) reads slot idx and drops it
                                     /\ last' = [call EXCEPT !.ok = TRUE]
                                     /\ prior' = [prior EXCEPT ![entry_id] =
                                           Append(@, [text |-> old.text, meta |-> old.meta])]
                        ELSE /\ last' = [call EXCEPT !.ok = FALSE]
                             /\ UNCHANGED <<vectors, prior>>
    /\ UNCHANGED <<backend, thr, use_faiss, index, id_map, nextId, memVars, fx, deleted>>

delete(entry_id) ==
    /\ backend = "supabase"
    /\ LET left == DeleteEq(vectors, entry_id)
           \* res.data: the rows the delete removed
           removed == SelectSeq(vectors, LAMBDA r : r \notin Range(left))
       IN /\ vectors_history' = DeleteHistoryEq(vectors_history, entry_id)
          /\ vectors' = left
          /\ IF use_faiss /\ entry_id \in Range(id_map)
             THEN LET idx == ListIndex(id_map, entry_id)
                  IN /\ index' = [index EXCEPT !.xb = RemoveAt(@, idx)]
                     /\ id_map' = RemoveAt(id_map, idx)
             ELSE UNCHANGED <<index, id_map>>
          /\ last' = [NoCall EXCEPT !.op = "delete", !.id = entry_id,
                                    !.ok = Len(removed) > 0,
                                    !.existed = entry_id \in StoreIds]
          /\ deleted' = deleted \cup ({entry_id} \cap Issued)
          /\ prior' = [i \in 1..MaxIds |-> IF i = entry_id THEN <<>> ELSE prior[i]]
    /\ UNCHANGED <<backend, thr, use_faiss, now, nextId, memVars, fx>>

\* zip(texts, metas): as many pairs as the shorter list has
ZipLen(texts, metas) == IF Len(texts) < Len(metas) THEN Len(texts) ELSE Len(metas)

batch_add(texts, metas) ==
    /\ backend = "supabase"
    /\ LET \* metas = metas or [{} for _ in texts]
           metas1 == IF metas = NoneMetas \/ metas = <<>>
                     THEN [i \in 1..Len(texts) |-> EmptyMeta]
                     ELSE metas
           n == ZipLen(texts, metas1)
           data_batch == [i \in 1..n |->
                            [id |-> nextId + i - 1, text |-> texts[i], meta |-> metas1[i],
                             embedding |-> encode(texts[i])]]
           inserted == vectors \o data_batch
           built == build_faiss_index(inserted)
           call == [NoCall EXCEPT !.op = "batch_add", !.texts = texts, !.metas = metas]
       IN /\ nextId + n - 1 <= MaxIds
          /\ nextId' = nextId + n
          /\ vectors' = inserted
          /\ IF ~use_faiss
             THEN /\ UNCHANGED <<index, id_map>>
                  /\ last' = [call EXCEPT !.ids = [i \in 1..n |-> data_batch[i].id]]
             ELSE IF index.none /\ n > 0
             THEN /\ index' = built.index
                  /\ id_map' = built.id_map
                  /\ last' = [call EXCEPT !.ids = [i \in 1..n |-> data_batch[i].id]]
             ELSE IF n = 0
             THEN \* faiss.normalize_L2 of an array without a second axis
                  /\ UNCHANGED <<index, id_map>>
                  /\ last' = [call EXCEPT !.exc = "IndexError"]
             ELSE /\ index' = [index EXCEPT !.xb =
                                  @ \o [i \in 1..n |-> normalize_L2(data_batch[i].embedding)]]
                  /\ id_map' = id_map \o [i \in 1..n |-> data_batch[i].id]
                  /\ last' = [call EXCEPT !.ids = [i \in 1..n |-> data_batch[i].id]]
    /\ UNCHANGED <<backend, thr, use_faiss, vectors_history, now, memVars, fx, deleted, prior>>

\* ------------------------------------------------------------------ db.VectorDB (in memory)
MemIds == {metadata_mem[i].id : i \in 1..Len(metadata_mem)}

mem_add(text, meta) ==
    /\ backend = "memory"
    /\ nextId <= MaxIds
    /\ vectors_mem' = Append(vectors_mem, encode(text))
    /\ metadata_mem' = Append(metadata_mem, [id |-> nextId, text |-> text, meta |-> meta])
    /\ nextId' = nextId + 1
    /\ last' = [NoCall EXCEPT !.op = "add", !.id = nextId, !.ids = <<nextId>>]
    /\ UNCHANGED <<backend, thr, sbVars, fx, pkl, saved, deleted, prior>>

\* batch_add calls add for each text in turn; metas[i] raises once i runs past a
\* non-empty metas, and what was added before that stays
mem_batch_add(texts, metas) ==
    /\ backend = "memory"
    /\ LET given == metas # NoneMetas /\ metas # <<>>
           n == IF given /\ Len(metas) < Len(texts) THEN Len(metas) ELSE Len(texts)
           added == [i \in 1..n |->
                        [id |-> nextId + i - 1, text |-> texts[i],
                         meta |-> IF given THEN metas[i] ELSE NoneMeta]]
           call == [NoCall EXCEPT !.op = "batch_add", !.texts = texts, !.metas = metas]
       IN /\ nextId + n - 1 <= MaxIds
          /\ nextId' = nextId + n
          /\ vectors_mem' = vectors_mem \o [i \in 1..n |-> encode(texts[i])]
          /\ metadata_mem' = metadata_mem \o added
          /\ IF n < Len(texts)
             THEN last' = [call EXCEPT !.exc = "IndexError"]
             ELSE last' = [call EXCEPT !.ids = [i \in 1..n |-> added[i].id]]
    /\ UNCHANGED <<backend, thr, sbVars, fx, pkl, saved, deleted, prior>>

\* np.argsort(sims)[::-1]: positions by descending score; numpy does not say which of
\* two equal scores argsort puts first
ArgsortReversed(sims) ==
    {f \in [1..Len(sims) -> 1..Len(sims)] :
        /\ \A i, j \in 1..Len(sims) : i # j => f[i] # f[j]
        /\ \A i \in 1..(Len(sims) - 1) : sims[f[i]] >= sims[f[i + 1]]}

mem_search(query, top_k, meta_filter) ==
    /\ backend = "memory"
    /\ LET q_vec == encode(query)
           n == Len(metadata_mem)
           \* `k in data["meta"]` on a record whose meta is None
           raises == TruthyMeta(meta_filter)
                        /\ \E i \in 1..n : metadata_mem[i].meta = NoneMeta
           keep(i) == ~TruthyMeta(meta_filter)
                         \/ MetaMatches(metadata_mem[i].meta, meta_filter)
           filtered_indices == SelectSeq([i \in 1..n |-> i], keep)
           sims == [i \in 1..Len(filtered_indices) |->
                       cosine_similarity(q_vec, vectors_mem[filtered_indices[i]])]
           call == [NoCall EXCEPT !.op = "search", !.top_k = top_k,
                                  !.meta_filter = meta_filter, !.query = query]
       IN IF raises
          THEN last' = [call EXCEPT !.exc = "TypeError"]
          ELSE \E order \in ArgsortReversed(sims) :
                 LET top_idx == Take(order, top_k)
                 IN last' = [call EXCEPT !.results =
                       [j \in 1..Len(top_idx) |->
                          [score |-> sims[top_idx[j]],
                           id |-> metadata_mem[filtered_indices[top_idx[j]]].id,
                           text |-> metadata_mem[filtered_indices[top_idx[j]]].text,
                           meta |-> metadata_mem[filtered_indices[top_idx[j]]].meta]]]
    /\ UNCHANGED <<backend, thr, sbVars, memVars, fx, nextId, deleted, prior>>

mem_delete(entry_id) ==
    /\ backend = "memory"
    /\ LET found == entry_id \in MemIds
           i == IF found THEN ListIndex([j \in 1..Len(metadata_mem) |-> metadata_mem[j].id],
                                        entry_id)
                ELSE 0
       IN /\ IF found
             THEN /\ vectors_mem' = RemoveAt(vectors_mem, i)
                  /\ metadata_mem' = RemoveAt(metadata_mem, i)
             ELSE UNCHANGED <<vectors_mem, metadata_mem>>
          /\ last' = [NoCall EXCEPT !.op = "delete", !.id = entry_id, !.ok = found,
                                    !.existed = found]
          /\ deleted' = deleted \cup ({entry_id} \cap Issued)
    /\ UNCHANGED <<backend, thr, sbVars, fx, pkl, saved, nextId, prior>>

mem_update(entry_id, text, meta) ==
    /\ backend = "memory"
    /\ LET found == entry_id \in MemIds
           i == IF found THEN 1 + ListIndex([j \in 1..Len(metadata_mem) |-> metadata_mem[j].id],
                                            entry_id)
                ELSE 0
       IN /\ IF found
             THEN /\ vectors_mem' = IF TruthyText(text)
                                    THEN [vectors_mem EXCEPT ![i] = encode(text)]
                                    ELSE vectors_mem
                  /\ metadata_mem' =
                        [metadata_mem EXCEPT ![i] =
                            [id |-> @.id,
                             text |-> IF TruthyText(text) THEN text ELSE @.text,
                             meta |-> IF TruthyMeta(meta) THEN meta ELSE @.meta]]
             ELSE UNCHANGED <<vectors_mem, metadata_mem>>
          /\ last' = [NoCall EXCEPT !.op = "update", !.id = entry_id, !.ok = found,
                                    !.hasText = TruthyText(text),
                                    !.hasMeta = meta # NoneMeta,
                                    !.meta = meta,
                                    !.existed = found]
    /\ UNCHANGED <<backend, thr, sbVars, fx, pkl, saved, nextId, deleted, prior>>

\* pickle.dump of a dict: its items one after the other, key then value
pickle_dump(d) == <<"vectors", d.vectors, "metadata", d.metadata>>
\* pickle.load: the dict with the items the file holds
pickle_load(b) ==
    [vectors |-> b[(CHOOSE i \in {1, 3} : b[i] = "vectors") + 1],
     metadata |-> b[(CHOOSE i \in {1, 3} : b[i] = "metadata") + 1]]

save ==
    /\ backend = "memory"
    /\ pkl' = [exists |-> TRUE,
               data |-> pickle_dump([vectors |-> vectors_mem, metadata |-> metadata_mem])]
    /\ saved' = [vectors |-> vectors_mem, metadata |-> metadata_mem]
    /\ last' = [NoCall EXCEPT !.op = "save", !.held = Len(metadata_mem)]
    /\ UNCHANGED <<backend, thr, sbVars, fx, vectors_mem, metadata_mem, nextId, deleted, prior>>

\* a load that appends what the file holds to what the instance holds
load_extends ==
    /\ backend = "memory"
    /\ IF pkl.exists
       THEN /\ vectors_mem' = vectors_mem \o pickle_load(pkl.data).vectors
            /\ metadata_mem' = metadata_mem \o pickle_load(pkl.data).metadata
            /\ last' = [NoCall EXCEPT !.op = "load", !.held = Len(metadata_mem)]
       ELSE /\ UNCHANGED <<vectors_mem, metadata_mem>>
            /\ last' = [NoCall EXCEPT !.op = "load", !.exc = "FileNotFoundError",
                                      !.held = Len(metadata_mem)]
    /\ UNCHANGED <<backend, thr, sbVars, fx, pkl, saved, nextId, deleted, prior>>

\* data = pickle.load(f); open() raises when nothing was saved
load ==
    /\ backend = "memory"
    /\ IF pkl.exists
       THEN /\ vectors_mem' = pickle_load(pkl.data).vectors
            /\ metadata_mem' = pickle_load(pkl.data).metadata
            /\ last' = [NoCall EXCEPT !.op = "load", !.held = Len(metadata_mem)]
       ELSE /\ UNCHANGED <<vectors_mem, metadata_mem>>
            /\ last' = [NoCall EXCEPT !.op = "load", !.exc = "FileNotFoundError",
                                      !.held = Len(metadata_mem)]
    /\ UNCHANGED <<backend, thr, sbVars, fx, pkl, saved, nextId, deleted, prior>>

\* ------------------------------------------------------------------ faiss_index.FAISSIndex
\* candidates FAISSIndex.search asks the index for, per requested result
OverFetch == 5

\* build_index over the rows db._get_all() returns: the object's fields afterwards;
\* over an empty store only index and metadata are reset
build_index_fields(f, rows) ==
    LET all_vectors == get_all(rows, NoneMeta)
        n == Len(all_vectors)
    IN IF n = 0
       THEN [f EXCEPT !.index = [none |-> TRUE, xb |-> <<>>], !.metadata = <<>>]
       ELSE [constructed |-> f.constructed,
             index |-> [none |-> FALSE, xb |-> [i \in 1..n |-> all_vectors[i].embedding]],
             vectors |-> [i \in 1..n |-> all_vectors[i].embedding],
             id_to_idx |-> [id \in {all_vectors[i].id : i \in 1..n} |->
                              (CHOOSE i \in 1..n : all_vectors[i].id = id) - 1],
             idx_to_id |-> [i \in 0..(n - 1) |-> all_vectors[i + 1].id],
             metadata |-> [i \in 1..n |-> all_vectors[i].meta]]

\* FAISSIndex(db): fresh fields, then build_index()
FAISSIndex_init ==
    /\ backend = "supabase"
    /\ fx' = build_index_fields([NoFAISSIndex EXCEPT !.constructed = TRUE], vectors)
    /\ last' = [NoCall EXCEPT !.op = "FAISSIndex"]
    /\ UNCHANGED <<backend, thr, sbVars, memVars, nextId, deleted, prior>>

build_index ==
    /\ backend = "supabase"
    /\ fx.constructed
    /\ fx' = build_index_fields(fx, vectors)
    /\ last' = [NoCall EXCEPT !.op = "build_index"]
    /\ UNCHANGED <<backend, thr, sbVars, memVars, nextId, deleted, prior>>

\* the loop of FAISSIndex.search from candidate i on, acc being the results so far
RECURSIVE fx_scan(_, _, _, _, _)
fx_scan(hits, i, top_k, meta_filter, acc) ==
    IF i > Len(hits) \/ Len(acc) >= top_k
    THEN [exc |-> "", results |-> acc]
    ELSE IF hits[i].idx = -1
    THEN fx_scan(hits, i + 1, top_k, meta_filter, acc)
    ELSE IF TruthyMeta(meta_filter)
            /\ ~MetaMatches(fx.metadata[hits[i].idx + 1], meta_filter)
    THEN fx_scan(hits, i + 1, top_k, meta_filter, acc)
    ELSE LET vec_id == fx.idx_to_id[hits[i].idx]
             found == SelectEq(get_all(vectors, NoneMeta), vec_id)
         IN IF found = <<>>
            THEN \* next() over a generator that yields nothing
                 [exc |-> "StopIteration", results |-> acc]
            ELSE fx_scan(hits, i + 1, top_k, meta_filter,
                         Append(acc, Result(hits[i].score, found[1])))

FAISSIndex_search(query, top_k, meta_filter) ==
    /\ backend = "supabase"
    /\ fx.constructed
    /\ LET call == [NoCall EXCEPT !.op = "FAISSIndex.search", !.top_k = top_k,
                                  !.meta_filter = meta_filter, !.query = query]
       IN IF fx.index.none
          THEN last' = call
          ELSE \E hits \in IndexSearch(fx.index.xb, encode(query), top_k * OverFetch) :
                 LET r == fx_scan(hits, 1, top_k, meta_filter, <<>>)
                 IN last' = [call EXCEPT !.exc = r.exc, !.results = r.results]
    /\ UNCHANGED <<backend, thr, sbVars, memVars, fx, nextId, deleted, prior>>

\* ------------------------------------------------------------------ failing collaborators
\* The runs of a handler in which model.encode raises: what the handler wrote before
\* the call stays, and the exception reaches the caller.

\* add: encode is called before the insert
add_EncoderFailure(text, meta) ==
    /\ backend = "supabase"
    /\ last' = [NoCall EXCEPT !.op = "add", !.exc = "EncoderFailure"]
    /\ UNCHANGED <<backend, thr, sbVars, memVars, fx, nextId, deleted, prior>>

\* batch_add: encode raises for one of the zipped pairs, before the insert of the batch
batch_add_EncoderFailure(texts, metas) ==
    /\ backend = "supabase"
    /\ LET metas1 == IF metas = NoneMetas \/ metas = <<>>
                     THEN [i \in 1..Len(texts) |-> EmptyMeta]
                     ELSE metas
       IN ZipLen(texts, metas1) >= 1
    /\ last' = [NoCall EXCEPT !.op = "batch_add", !.exc = "EncoderFailure"]
    /\ UNCHANGED <<backend, thr, sbVars, memVars, fx, nextId, deleted, prior>>

\* update: encode is called for a truthy text, after save_version(old)
update_EncoderFailure(entry_id, text, meta) ==
    /\ backend = "supabase"
    /\ TruthyText(text)
    /\ SelectEq(vectors, entry_id) # <<>>
    /\ now < MaxSnapshots
    /\ vectors_history' = save_version(vectors_history, SelectEq(vectors, entry_id)[1], now + 1)
    /\ now' = now + 1
    /\ last' = [NoCall EXCEPT !.op = "update", !.id = entry_id, !.existed = TRUE,
                              !.exc = "EncoderFailure"]
    /\ UNCHANGED <<backend, thr, use_faiss, vectors, index, id_map, memVars, fx, nextId,
                   deleted, prior>>

\* db.VectorDB.add: encode is the first statement
mem_add_EncoderFailure(text, meta) ==
    /\ backend = "memory"
    /\ last' = [NoCall EXCEPT !.op = "add", !.exc = "EncoderFailure"]
    /\ UNCHANGED <<backend, thr, sbVars, memVars, fx, nextId, deleted, prior>>

\* db.VectorDB.batch_add: the add of item k raises in encode; the adds of the
\* items before it have run
mem_batch_add_EncoderFailure(texts, metas, k) ==
    /\ backend = "memory"
    /\ LET given == metas # NoneMetas /\ metas # <<>>
           n == IF given /\ Len(metas) < Len(texts) THEN Len(metas) ELSE Len(texts)
           added == [i \in 1..(k - 1) |->
                        [id |-> nextId + i - 1, text |-> texts[i],
                         meta |-> IF given THEN metas[i] ELSE NoneMeta]]
       IN /\ k \in 1..n
          /\ nextId + k - 2 <= MaxIds
          /\ nextId' = nextId + k - 1
          /\ vectors_mem' = vectors_mem \o [i \in 1..(k - 1) |-> encode(texts[i])]
          /\ metadata_mem' = metadata_mem \o added
          /\ last' = [NoCall EXCEPT !.op = "batch_add", !.exc = "EncoderFailure"]
    /\ UNCHANGED <<backend, thr, sbVars, fx, pkl, saved, deleted, prior>>

\* db.VectorDB.update: encode is called for a truthy text before anything is assigned
mem_update_EncoderFailure(entry_id, text, meta) ==
    /\ backend = "memory"
    /\ TruthyText(text)
    /\ entry_id \in MemIds
    /\ last' = [NoCall EXCEPT !.op = "update", !.id = entry_id, !.existed = TRUE,
                              !.exc = "EncoderFailure"]
    /\ UNCHANGED <<backend, thr, sbVars, memVars, fx, nextId, deleted, prior>>

\* The runs of a handler in which its write to the "vectors" table raises.

\* add: the insert raises, before the index is looked at
add_StoreFailure(text, meta) ==
    /\ backend = "supabase"
    /\ last' = [NoCall EXCEPT !.op = "add", !.exc = "StoreFailure"]
    /\ UNCHANGED <<backend, thr, sbVars, memVars, fx, nextId, deleted, prior>>

\* batch_add: the insert of a non-empty batch raises
batch_add_StoreFailure(texts, metas) ==
    /\ backend = "supabase"
    /\ LET metas1 == IF metas = NoneMetas \/ metas = <<>>
                     THEN [i \in 1..Len(texts) |-> EmptyMeta]
                     ELSE metas
       IN ZipLen(texts, metas1) >= 1
    /\ last' = [NoCall EXCEPT !.op = "batch_add", !.exc = "StoreFailure"]
    /\ UNCHANGED <<backend, thr, sbVars, memVars, fx, nextId, deleted, prior>>

\* update: the table update raises, after save_version(old)
update_StoreFailure(entry_id, text, meta) ==
    /\ backend = "supabase"
    /\ TruthyText(text) \/ meta # NoneMeta
    /\ SelectEq(vectors, entry_id) # <<>>
    /\ now < MaxSnapshots
    /\ vectors_history' = save_version(vectors_history, SelectEq(vectors, entry_id)[1], now + 1)
    /\ now' = now + 1
    /\ last' = [NoCall EXCEPT !.op = "update", !.id = entry_id, !.existed = TRUE,
                              !.exc = "StoreFailure"]
    /\ UNCHANGED <<backend, thr, use_faiss, vectors, index, id_map, memVars, fx, nextId,
                   deleted, prior>>

\* a delete that takes the id's slot out of the index before its delete of the
\* record raises
delete_StoreFailure_slotFirst(entry_id) ==
    /\ backend = "supabase"
    /\ vectors_history' = DeleteHistoryEq(vectors_history, entry_id)
    /\ IF use_faiss /\ entry_id \in Range(id_map)
       THEN /\ index' = [index EXCEPT !.xb = RemoveAt(@, ListIndex(id_map, entry_id))]
            /\ id_map' = RemoveAt(id_map, ListIndex(id_map, entry_id))
       ELSE UNCHANGED <<index, id_map>>
    /\ last' = [NoCall EXCEPT !.op = "delete", !.id = entry_id,
                              !.existed = entry_id \in StoreIds, !.exc = "StoreFailure"]
    /\ UNCHANGED <<backend, thr, use_faiss, vectors, now, memVars, fx, nextId, deleted, prior>>

\* delete: the delete of the record raises, after the id's history was deleted
delete_StoreFailure(entry_id) ==
    /\ backend = "supabase"
    /\ vectors_history' = DeleteHistoryEq(vectors_history, entry_id)
    /\ last' = [NoCall EXCEPT !.op = "delete", !.id = entry_id,
                              !.existed = entry_id \in StoreIds, !.exc = "StoreFailure"]
    /\ UNCHANGED <<backend, thr, use_faiss, vectors, now, index, id_map, memVars, fx, nextId,
                   deleted, prior>>

\* ------------------------------------------------------------------ calls from several threads
\* VectorDB takes no lock, so a call made while another thread is inside one runs
\* between that call's statements.  update and delete are cut at their requests to
\* Supabase: each of their steps is one request with the statements up to the next
\* one.  _build_faiss_index is cut at each statement that assigns self.index or
\* self.id_map, the interpreter being free to switch threads between them.

\* update, line 185: the select; an unknown id returns False at once
update_select(t, entry_id, text, meta) ==
    /\ backend = "supabase"
    /\ thr[t].pc = "idle"
    /\ LET res == SelectEq(vectors, entry_id)
       IN IF res = <<>>
          THEN /\ last' = [NoCall EXCEPT !.op = "update", !.id = entry_id]
               /\ UNCHANGED thr
          ELSE /\ thr' = [thr EXCEPT ![t] = [Idle EXCEPT !.pc = "save_version",
                                                         !.id = entry_id, !.text = text,
                                                         !.meta = meta, !.old = res]]
               /\ UNCHANGED last
    /\ UNCHANGED <<backend, sbVars, memVars, fx, nextId, deleted, prior>>

\* update, lines 188-197: save_version(old), then data is put together; without
\* text and meta the call returns False here
update_save_version(t) ==
    /\ backend = "supabase"
    /\ thr[t].pc = "save_version"
    /\ now < MaxSnapshots
    /\ vectors_history' = save_version(vectors_history, thr[t].old[1], now + 1)
    /\ now' = now + 1
    /\ IF TruthyText(thr[t].text) \/ thr[t].meta # NoneMeta
       THEN /\ thr' = [thr EXCEPT ![t].pc = "update"]
            /\ UNCHANGED last
       ELSE /\ thr' = [thr EXCEPT ![t] = Idle]
            /\ last' = [NoCall EXCEPT !.op = "update", !.id = thr[t].id, !.existed = TRUE]
    /\ UNCHANGED <<backend, use_faiss, vectors, index, id_map, memVars, fx, nextId,
                   deleted, prior>>

\* update, lines 199-207: the table update, the look at the index, return True
update_write(t) ==
    /\ backend = "supabase"
    /\ thr[t].pc = "update"
    /\ LET entry_id == thr[t].id
           data == [hasText |-> TruthyText(thr[t].text),
                    text |-> thr[t].text,
                    embedding |-> encode(thr[t].text),
                    hasMeta |-> thr[t].meta # NoneMeta,
                    meta |-> thr[t].meta]
           \* the row this request overwrites, if the id is still there
           seen == SelectEq(vectors, entry_id)
       IN /\ vectors' = UpdateEq(vectors, entry_id, data)
          /\ prior' = IF seen = <<>> THEN prior
                      ELSE [prior EXCEPT ![entry_id] =
                               Append(@, [text |-> seen[1].text, meta |-> seen[1].meta])]
          /\ IF use_faiss /\ ~index.none /\ entry_id \in Range(id_map) /\ ~data.hasText
             THEN last' = [NoCall EXCEPT !.op = "update", !.id = entry_id,
                                        !.existed = TRUE, !.exc = "KeyError"]
             ELSE last' = [NoCall EXCEPT !.op = "update", !.id = entry_id,
                                        !.existed = TRUE, !.ok = TRUE]
          /\ thr' = [thr EXCEPT ![t] = Idle]
    /\ UNCHANGED <<backend, use_faiss, vectors_history, now, index, id_map, memVars, fx,
                   nextId, deleted>>

\* a delete that starts with the record and leaves the history for later
delete_history_recordFirst(t, entry_id) ==
    /\ backend = "supabase"
    /\ thr[t].pc = "idle"
    /\ vectors' = DeleteEq(vectors, entry_id)
    /\ thr' = [thr EXCEPT ![t] = [Idle EXCEPT !.pc = "delete", !.id = entry_id]]
    /\ UNCHANGED <<backend, use_faiss, vectors_history, now, index, id_map, memVars, fx,
                   nextId, last, deleted, prior>>

\* delete, line 214: the delete of the id's history
delete_history(t, entry_id) ==
    /\ backend = "supabase"
    /\ thr[t].pc = "idle"
    /\ vectors_history' = DeleteHistoryEq(vectors_history, entry_id)
    /\ thr' = [thr EXCEPT ![t] = [Idle EXCEPT !.pc = "delete", !.id = entry_id]]
    /\ UNCHANGED <<backend, use_faiss, vectors, now, index, id_map, memVars, fx, nextId,
                   last, deleted, prior>>

\* delete, lines 215-220: the delete of the record, its slot, the return
delete_record(t) ==
    /\ backend = "supabase"
    /\ thr[t].pc = "delete"
    /\ LET entry_id == thr[t].id
           left == DeleteEq(vectors, entry_id)
       IN /\ vectors' = left
          /\ IF use_faiss /\ entry_id \in Range(id_map)
             THEN LET idx == ListIndex(id_map, entry_id)
                  IN /\ index' = [index EXCEPT !.xb = RemoveAt(@, idx)]
                     /\ id_map' = RemoveAt(id_map, idx)
             ELSE UNCHANGED <<index, id_map>>
          /\ last' = [NoCall EXCEPT !.op = "delete", !.id = entry_id,
                                    !.ok = Len(left) < Len(vectors),
                                    !.existed = entry_id \in StoreIds]
          /\ deleted' = deleted \cup ({entry_id} \cap Issued)
          /\ prior' = [i \in 1..MaxIds |-> IF i = entry_id THEN <<>> ELSE prior[i]]
          /\ thr' = [thr EXCEPT ![t] = Idle]
    /\ UNCHANGED <<backend, use_faiss, vectors_history, now, memVars, fx, nextId>>

\* add, lines 72-90: the insert, and for an index that exists the append of the
\* vector and the id; without an index the call goes on into _build_faiss_index
add_insert(t, text, meta) ==
    /\ backend = "supabase"
    /\ thr[t].pc = "idle"
    /\ nextId <= MaxIds
    /\ LET entry_id == nextId
           vector == encode(text)
       IN /\ vectors' = Append(vectors, [id |-> entry_id, text |-> text,
                                         meta |-> OrEmpty(meta), embedding |-> vector])
          /\ nextId' = nextId + 1
          /\ IF use_faiss /\ index.none
             THEN /\ thr' = [thr EXCEPT ![t] = [Idle EXCEPT !.pc = "_get_all",
                                                            !.id = entry_id]]
                  /\ UNCHANGED <<index, id_map, last>>
             ELSE /\ IF use_faiss
                     THEN /\ index' = [index EXCEPT !.xb = Append(@, normalize_L2(vector))]
                          /\ id_map' = Append(id_map, entry_id)
                     ELSE UNCHANGED <<index, id_map>>
                  /\ last' = [NoCall EXCEPT !.op = "add", !.id = entry_id,
                                            !.ids = <<entry_id>>]
                  /\ UNCHANGED thr
    /\ UNCHANGED <<backend, use_faiss, vectors_history, now, memVars, fx, deleted, prior>>

\* _build_faiss_index, lines 38-42: the scan; over no rows the index is dropped
build_get_all(t) ==
    /\ backend = "supabase"
    /\ thr[t].pc = "_get_all"
    /\ LET all_vectors == get_all(vectors, NoneMeta)
       IN IF Len(all_vectors) = 0
          THEN /\ index' = [none |-> TRUE, xb |-> <<>>]
               /\ id_map' = <<>>
               /\ thr' = [thr EXCEPT ![t] = Idle]
               /\ last' = [NoCall EXCEPT !.op = "add", !.id = thr[t].id,
                                         !.ids = <<thr[t].id>>]
          ELSE /\ thr' = [thr EXCEPT ![t].pc = "IndexFlatIP", ![t].all_vectors = all_vectors]
               /\ UNCHANGED <<index, id_map, last>>
    /\ UNCHANGED <<backend, use_faiss, vectors, vectors_history, now, memVars, fx, nextId,
                   deleted, prior>>

\* _build_faiss_index, line 45: self.index = faiss.IndexFlatIP(dim), an empty index
build_new_index(t) ==
    /\ backend = "supabase"
    /\ thr[t].pc = "IndexFlatIP"
    /\ index' = [none |-> FALSE, xb |-> <<>>]
    /\ thr' = [thr EXCEPT ![t].pc = "index.add"]
    /\ UNCHANGED <<backend, use_faiss, vectors, vectors_history, now, id_map, memVars, fx,
                   nextId, last, deleted, prior>>

\* _build_faiss_index, lines 46-48: self.index.add(embeddings), on whatever index
\* self.index is by now
build_index_add(t) ==
    /\ backend = "supabase"
    /\ thr[t].pc = "index.add"
    /\ ~index.none
    /\ index' = [index EXCEPT !.xb = @ \o [i \in 1..Len(thr[t].all_vectors) |->
                                              normalize_L2(thr[t].all_vectors[i].embedding)]]
    /\ thr' = [thr EXCEPT ![t].pc = "id_map"]
    /\ UNCHANGED <<backend, use_faiss, vectors, vectors_history, now, id_map, memVars, fx,
                   nextId, last, deleted, prior>>

\* _build_faiss_index, line 49: self.id_map = [...]; add then returns the id
build_id_map(t) ==
    /\ backend = "supabase"
    /\ thr[t].pc = "id_map"
    /\ id_map' = [i \in 1..Len(thr[t].all_vectors) |-> thr[t].all_vectors[i].id]
    /\ last' = [NoCall EXCEPT !.op = "add", !.id = thr[t].id, !.ids = <<thr[t].id>>]
    /\ thr' = [thr EXCEPT ![t] = Idle]
    /\ UNCHANGED <<backend, use_faiss, vectors, vectors_history, now, index, memVars, fx,
                   nextId, deleted, prior>>

\* ------------------------------------------------------------------ the calls
\* the ids a caller can name: those handed out so far, and 0, which never is one
Ids == 0..(nextId - 1)
\* the metas arguments of batch_add(texts, metas): None or a list of mappings, no
\* longer than texts (zip and metas[i] never look at a mapping beyond the last text)
MetasArgs(texts) == {NoneMetas} \cup SeqsUpTo(Metas, Len(texts))

NextSupabase ==
    \/ \E t \in Texts, m \in MetaArgs : add(t, m)
    \/ \E ts \in SeqsUpTo(Texts, MaxBatch) : \E ms \in MetasArgs(ts) : batch_add(ts, ms)
    \/ \E q \in Queries, k \in 1..MaxTopK, f \in Filters : search(q, k, f)
    \/ \E i \in Ids, t \in TextArgs, m \in MetaArgs : update(i, t, m)
    \/ \E i \in Ids : delete(i)

NextMemory ==
    \/ \E t \in Texts, m \in MetaArgs : mem_add(t, m)
    \/ \E ts \in SeqsUpTo(Texts, MaxBatch) : \E ms \in MetasArgs(ts) : mem_batch_add(ts, ms)
    \/ \E q \in Queries, k \in 1..MaxTopK, f \in Filters : mem_search(q, k, f)
    \/ \E i \in Ids, t \in TextArgs, m \in MetaArgs : mem_update(i, t, m)
    \/ \E i \in Ids : mem_delete(i)
    \/ save
    \/ load

\* a FAISSIndex over the store, and the store's records changing under it
NextFaiss ==
    \/ \E t \in Texts, m \in MetaArgs : add(t, m)
    \/ \E i \in Ids, t \in TextArgs, m \in MetaArgs : update(i, t, m)
    \/ \E i \in Ids : delete(i)
    \/ FAISSIndex_init
    \/ build_index
    \/ \E q \in Queries, k \in 1..MaxTopK, f \in Filters : FAISSIndex_search(q, k, f)

\* the calls that add and remove records, on a VectorDB with ANN enabled
NextAnn ==
    \/ \E t \in Texts, m \in MetaArgs : add(t, m)
    \/ \E ts \in SeqsUpTo(Texts, MaxBatch) : \E ms \in MetasArgs(ts) : batch_add(ts, ms)
    \/ \E i \in Ids : delete(i)

Next == NextSupabase \/ NextMemory

\* add, update and delete of either class
NextWrites ==
    \/ \E t \in Texts, m \in MetaArgs : add(t, m)
    \/ \E i \in Ids, t \in TextArgs, m \in MetaArgs : update(i, t, m)
    \/ \E i \in Ids : delete(i)
    \/ \E t \in Texts, m \in MetaArgs : mem_add(t, m)
    \/ \E i \in Ids, t \in TextArgs, m \in MetaArgs : mem_update(i, t, m)
    \/ \E i \in Ids : mem_delete(i)

\* records are added, and two threads update them with new texts and delete them
NextRace ==
    \/ \E t \in Texts : add(t, NoneMeta)
    \/ \E th \in Threads, i \in Ids, t \in Texts : update_select(th, i, t, NoneMeta)
    \/ \E th \in Threads : update_save_version(th)
    \/ \E th \in Threads : update_write(th)
    \/ \E th \in Threads, i \in Ids : delete_history(th, i)
    \/ \E th \in Threads : delete_record(th)

\* no thread is inside a call on this id
NotBusy(id) == \A u \in Threads : thr[u].pc = "idle" \/ thr[u].id # id

\* two threads update and delete records step by step, a call on an id starting
\* only when no other call on that id is under way; a delete may fail in its
\* delete of the record
NextPerId ==
    \/ \E t \in Texts : add(t, NoneMeta)
    \/ \E th \in Threads, i \in Ids, t \in Texts :
          NotBusy(i) /\ update_select(th, i, t, NoneMeta)
    \/ \E th \in Threads : update_save_version(th)
    \/ \E th \in Threads : update_write(th)
    \/ \E th \in Threads, i \in Ids : NotBusy(i) /\ delete_history(th, i)
    \/ \E th \in Threads : delete_record(th)
    \/ \E i \in Ids : NotBusy(i) /\ delete_StoreFailure(i)

\* records are added by threads that may have to build the index, while whole
\* calls of delete and search run between their steps
NextBuild ==
    \/ \E th \in Threads, t \in Texts : add_insert(th, t, NoneMeta)
    \/ \E th \in Threads : build_get_all(th)
    \/ \E th \in Threads : build_new_index(th)
    \/ \E th \in Threads : build_index_add(th)
    \/ \E th \in Threads : build_id_map(th)
    \/ \E i \in Ids : delete(i)
    \/ \E q \in Queries, k \in 1..MaxTopK : search(q, k, NoneMeta)

\* the calls that write, of either class, with the encoder or the record store
\* failing in some of them; a Supabase batch_add only as a call that fails (one that
\* completes leaves what its adds one by one leave), and then with metas=None, the
\* mappings being looked at by nothing before the failure
NextFault ==
    \/ \E t \in Texts, m \in MetaArgs : add(t, m)
    \/ \E i \in Ids, t \in TextArgs, m \in MetaArgs : update(i, t, m)
    \/ \E i \in Ids : delete(i)
    \/ \E t \in Texts, m \in MetaArgs : add_EncoderFailure(t, m)
    \/ \E ts \in SeqsUpTo(Texts, MaxBatch) : batch_add_EncoderFailure(ts, NoneMetas)
    \/ \E i \in Ids, t \in TextArgs, m \in MetaArgs : update_EncoderFailure(i, t, m)
    \/ \E t \in Texts, m \in MetaArgs : add_StoreFailure(t, m)
    \/ \E ts \in SeqsUpTo(Texts, MaxBatch) : batch_add_StoreFailure(ts, NoneMetas)
    \/ \E i \in Ids, t \in TextArgs, m \in MetaArgs : update_StoreFailure(i, t, m)
    \/ \E i \in Ids : delete_StoreFailure(i)
    \/ \E t \in Texts, m \in MetaArgs : mem_add(t, m)
    \/ \E ts \in SeqsUpTo(Texts, MaxBatch) : \E ms \in MetasArgs(ts) : mem_batch_add(ts, ms)
    \/ \E i \in Ids, t \in TextArgs, m \in MetaArgs : mem_update(i, t, m)
    \/ \E i \in Ids : mem_delete(i)
    \/ \E t \in Texts, m \in MetaArgs : mem_add_EncoderFailure(t, m)
    \/ \E ts \in SeqsUpTo(Texts, MaxBatch) : \E ms \in MetasArgs(ts) :
          \E k \in 1..MaxBatch : mem_batch_add_EncoderFailure(ts, ms, k)
    \/ \E i \in Ids, t \in TextArgs, m \in MetaArgs : mem_update_EncoderFailure(i, t, m)

\* either class, as the caller constructs it
SpecBoth == Init /\ [][Next]_vars
\* db_supabase.VectorDB
Spec == InitSupabase /\ [][NextSupabase]_vars
\* faiss_index.FAISSIndex over a db_supabase.VectorDB that keeps no index of its own
SpecFaiss == InitFaiss /\ [][NextFaiss]_vars
\* db.VectorDB
SpecMem == InitMemory /\ [][NextMemory]_vars
\* db_supabase.VectorDB called from two threads: update and delete in their steps
SpecRace == InitSupabase /\ [][NextRace]_vars
\* db_supabase.VectorDB(use_faiss=True) called from two threads: add, with the build
\* of the index in its steps, next to whole calls of delete and search
SpecBuild == InitAnn /\ [][NextBuild]_vars
\* db_supabase.VectorDB called from two threads, the calls on one id one at a time
SpecPerId == InitSupabase /\ [][NextPerId]_vars
\* either class, with collaborators that can fail
SpecFault == Init /\ [][NextFault]_vars
\* db_supabase.VectorDB(use_faiss=True) under add, batch_add and delete only
SpecAnn == InitAnn /\ [][NextAnn]_vars

\* either class under the calls that write single records
SpecWrites == Init /\ [][NextWrites]_vars

\* ------------------------------------------------------------------ properties
\* the ids of the records the constructed store holds
CurrentIds == IF backend = "supabase" THEN StoreIds ELSE MemIds
\* the row of "vectors" with this id
StoreRow(id) == SelectEq(vectors, id)[1]
\* the slot id_map gives this id, 1-based into index.xb
SlotOf(id) == ListIndex(id_map, id) + 1
Min(a, b) == IF a < b THEN a ELSE b

\* C1: every result of VectorDB.search (ANN and brute force) carries the id of a
\* record that is in the store when the search runs, and never an id that a delete
\* has removed.
C1_SearchReturnsStoredIds ==
    last.op = "search" =>
        \A i \in 1..Len(last.results) :
            /\ last.results[i].id \in StoreIds
            /\ last.results[i].id \notin deleted

\* C1 witness: an ANN search that returns a record after another one was deleted
C1_Witness ==
    /\ last.op = "search" /\ last.exc = "" /\ use_faiss
    /\ deleted # {} /\ Len(last.results) > 0

\* C2: after update(id, text=t) has returned on a store with ANN enabled and id in
\* the index, the vector in id's slot is the embedding of t that the store holds.
C2_UpdateReplacesIndexVector ==
    (/\ last.op = "update" /\ last.ok /\ last.hasText
     /\ use_faiss /\ ~index.none /\ last.id \in Range(id_map))
        => index.xb[SlotOf(last.id)] = normalize_L2(StoreRow(last.id).embedding)

\* C3: a record updated n >= 1 times by calls that returned True has exactly n
\* snapshots, and the k-th in creation order holds the text and metadata the record
\* had before the k-th of those updates (get_history lists them latest first).
C3_HistoryHoldsPriorStates ==
    \A id \in StoreIds :
        LET h == get_history(id)
            n == Len(prior[id])
        IN n >= 1 =>
              /\ Len(h) = n
              /\ \A k \in 1..n : /\ h[n - k + 1].text = prior[id][k].text
                                  /\ h[n - k + 1].meta = prior[id][k].meta

\* C4: update with text, metadata or both returns False exactly when the id is not
\* in the store, and for an id in the store it completes and returns True.
C4_UpdateReturnsWhetherIdKnown ==
    (last.op = "update" /\ (last.hasText \/ last.hasMeta))
        => /\ last.exc = ""
           /\ last.ok <=> last.existed

\* C5: a search without a metadata filter over n records returns exactly
\* min(top_k, n) results.
C5_SearchReturnsMinTopKN ==
    (last.op = "search" /\ ~TruthyMeta(last.meta_filter) /\ last.exc = "")
        => Len(last.results) = Min(last.top_k, Len(vectors))

\* C6: every result of a search called with a metadata filter (VectorDB.search and
\* FAISSIndex.search) has, in its own metadata, every filter key with an equal value.
C6_ResultsMatchFilter ==
    (last.op \in {"search", "FAISSIndex.search"} /\ TruthyMeta(last.meta_filter))
        => \A i \in 1..Len(last.results) :
              MetaMatches(last.results[i].meta, last.meta_filter)

\* C7: once delete(id) has returned, get_history(id) is empty, however many
\* snapshots the record had.
C7_DeleteEmptiesHistory ==
    \A id \in deleted : get_history(id) = <<>>

\* C7 witness: the only record ever added was updated twice and then deleted
C7_Witness ==
    /\ last.op = "delete" /\ last.ok /\ nextId = 2 /\ now = 2
    /\ get_history(last.id) = <<>>

\* C8: delete(id) returns True exactly when the id was in the store before the
\* call, and afterwards the store does not hold it; a delete of the id that the
\* call before it deleted returns False.
C8_DeleteReturnsWhetherIdExisted ==
    /\ [](last.op = "delete" => /\ last.ok <=> last.existed
                                /\ last.id \notin CurrentIds)
    /\ [][(last.op = "delete" /\ last'.op = "delete" /\ last'.id = last.id)
              => ~last'.ok]_vars

\* C8 witness: a delete of an id that an earlier delete removed returns False
C8_Witness ==
    /\ last.op = "delete" /\ ~last.ok /\ last.id \in deleted

\* C9: batch_add(texts, metas), metas being None or one mapping per text, returns
\* one id per text, in order and all distinct, and the i-th id is that of a stored
\* record with text texts[i] and metadata metas[i] (empty or None if metas is None);
\* this for every length of texts, the empty list included.
C9_BatchAddReturnsOneIdPerText ==
    (/\ last.op = "batch_add"
     /\ backend = "supabase"
     /\ (last.metas = NoneMetas \/ Len(last.metas) = Len(last.texts)))
        => /\ last.exc = ""
           /\ Len(last.ids) = Len(last.texts)
           /\ \A i, j \in 1..Len(last.ids) : i # j => last.ids[i] # last.ids[j]
           /\ \A i \in 1..Len(last.ids) :
                 /\ last.ids[i] \in StoreIds
                 /\ StoreRow(last.ids[i]).text = last.texts[i]
                 /\ StoreRow(last.ids[i]).meta =
                       (IF last.metas = NoneMetas THEN EmptyMeta ELSE last.metas[i])

\* C10: after save() and then load(), the instance holds exactly the vectors and
\* the metadata entries, in order, that the saving instance held at the save, and
\* nothing of what it held before the load.
C10_LoadRestoresWhatWasSaved ==
    (last.op = "load" /\ last.exc = "")
        => /\ vectors_mem = saved.vectors
           /\ metadata_mem = saved.metadata

\* C10 witness: an instance holding two records loads a file saved with one
C10_Witness ==
    /\ last.op = "load" /\ last.exc = ""
    /\ Len(metadata_mem) = 1 /\ last.held = 2

\* the metadata the constructed store holds for this id
RecordMeta(id) ==
    IF backend = "supabase" THEN StoreRow(id).meta
    ELSE metadata_mem[1 + ListIndex([j \in 1..Len(metadata_mem) |-> metadata_mem[j].id], id)].meta

\* the items of a record's metadata, None having none
Items(m) == IF m = NoneMeta THEN {} ELSE m

\* C11: after update(id, meta=m) on a record the store holds, with m a mapping (the
\* empty one included), the record's metadata has exactly the items of m: no item
\* of the metadata it had before is left unless m has it. In either class.
C11_UpdateReplacesMetadata ==
    (last.op = "update" /\ last.existed /\ last.hasMeta)
        => Items(RecordMeta(last.id)) = Items(last.meta)

\* C12: a search over a store that holds no record (never had one, or had them all
\* deleted) returns the empty list and raises nothing, with or without a filter;
\* VectorDB.search of either class and FAISSIndex.search.
C12_EmptyStoreSearchIsEmpty ==
    (last.op \in {"search", "FAISSIndex.search"} /\ CurrentIds = {})
        => /\ last.exc = ""
           /\ last.results = <<>>

\* C13: the list VectorDB.search returns is in non-increasing order of score, on the
\* ANN path, after the metadata filter was applied to it, and on the brute-force
\* path of either class.
C13_ResultsOrderedByScore ==
    last.op = "search" =>
        \A i, j \in 1..Len(last.results) :
            i < j => last.results[i].score >= last.results[j].score

\* C13 witness: a filtered ANN search returns two records with different scores
C13_Witness ==
    /\ last.op = "search" /\ last.exc = "" /\ use_faiss /\ TruthyMeta(last.meta_filter)
    /\ Len(last.results) = 2
    /\ last.results[1].score > last.results[2].score

\* C14: with ANN enabled, after any sequence of add, batch_add and delete, id_map
\* has as many entries as the index has vectors, and the vector in slot i is the
\* (normalized) embedding of the stored record whose id is id_map[i]; a delete
\* closes the gap in both together.
C14_IdMapMatchesIndex ==
    use_faiss =>
        /\ Len(id_map) = Len(index.xb)
        /\ \A i \in 1..Len(id_map) :
              /\ id_map[i] \in StoreIds
              /\ index.xb[i] = normalize_L2(StoreRow(id_map[i]).embedding)

\* C14 witness: the first of two records was deleted and the second, with another
\* text, moved down to slot 0
C14_Witness ==
    /\ last.op = "delete" /\ last.ok /\ last.id = 1 /\ nextId = 3
    /\ id_map = <<2>> /\ index.xb = <<encode("b")>>

\* C15: with ANN enabled, from construction on and after every add, batch_add,
\* update and delete, the ids in id_map are exactly the ids in the record store and
\* none is there twice; the first add on an empty store and an add after every
\* record was deleted included.
C15_IdMapHoldsStoreIds ==
    use_faiss =>
        /\ Range(id_map) = StoreIds
        /\ \A i, j \in 1..Len(id_map) : i # j => id_map[i] # id_map[j]

\* C15 witness: an add after the only record was deleted
C15_Witness ==
    /\ use_faiss /\ last.op = "add" /\ deleted = {1} /\ id_map = <<2>>

\* C16: a call of add, batch_add or update in which the encoder fails leaves the
\* record store, the version history and the index as they were before the call
\* (for batch_add, without the items that came before the failing one).
C16_EncoderFailureWritesNothing ==
    [][last'.exc = "EncoderFailure" =>
          UNCHANGED <<vectors, vectors_history, index, id_map,
                      vectors_mem, metadata_mem>>]_vars

\* C17: a call of add, batch_add, update or delete whose write to the record store
\* fails leaves the ANN structure and id_map as they were before the call.
C17_StoreFailureLeavesIndex ==
    [][last'.exc = "StoreFailure" => UNCHANGED <<index, id_map>>]_vars

\* C17 witness: the delete of a record's row failed and the record still has its
\* slot in the index
C17_Witness ==
    /\ last.op = "delete" /\ last.exc = "StoreFailure" /\ use_faiss
    /\ last.id \in Range(id_map) /\ last.id \in StoreIds

\* no thread is inside a call
Quiescent == \A t \in Threads : thr[t].pc = "idle"
\* the id's snapshots in the order they were written
HistoryOf(id) == SelectSeq(vectors_history, LAMBDA r : r.vector_id = id)

\* C18: when update and delete calls on one id run at the same time, their steps in
\* any order, then once they have returned the history of a stored record holds
\* one snapshot for each state of it that an update overwrote, in order (so no
\* two updates snapshotted the same state and no overwritten state is missing),
\* and no snapshot is of a record that is not in the store.
C18_SameIdMutationsSerialized ==
    Quiescent =>
        /\ \A id \in StoreIds :
              /\ Len(HistoryOf(id)) = Len(prior[id])
              /\ \A k \in 1..Len(prior[id]) :
                    /\ HistoryOf(id)[k].text = prior[id][k].text
                    /\ HistoryOf(id)[k].meta = prior[id][k].meta
        /\ \A k \in 1..Len(vectors_history) : vectors_history[k].vector_id \in StoreIds

\* C19: a build of the index replaces the ANN structure and the id table in one
\* step: whatever runs next to _build_faiss_index finds either no index and an
\* empty id_map, or an index and an id_map of the same length in which every slot
\* holds the embedding of the stored record its id names; never a filled
\* structure next to the table of before, or a slot under another record's id.
C19_BuildReplacesIndexAtomically ==
    /\ index.none => id_map = <<>>
    /\ ~index.none =>
          /\ Len(id_map) = Len(index.xb)
          /\ \A i \in 1..Len(id_map) :
                \A k \in 1..Len(vectors) :
                    vectors[k].id = id_map[i]
                        => index.xb[i] = normalize_L2(vectors[k].embedding)

\* the ids of the records in the order a scan of the constructed store meets them
ScanIds ==
    IF backend = "supabase" THEN [k \in 1..Len(vectors) |-> vectors[k].id]
    ELSE [k \in 1..Len(metadata_mem) |-> metadata_mem[k].id]
\* the embedding and the metadata of the k-th record of the scan
ScanEmbedding(k) == IF backend = "supabase" THEN vectors[k].embedding ELSE vectors_mem[k]
ScanMeta(k) == IF backend = "supabase" THEN vectors[k].meta ELSE metadata_mem[k].meta
\* the k-th record of the scan is a candidate of the last search
Eligible(k) ==
    ~TruthyMeta(last.meta_filter) \/ MetaMatches(ScanMeta(k), last.meta_filter)

\* C20: a brute-force search (the in-memory class, the Supabase class without ANN)
\* breaks ties by scan order: of two results with equal scores the record stored
\* earlier comes first, and a candidate left out by top_k that scores the same as
\* a result was stored after it.
C20_TiesKeepScanOrder ==
    (last.op = "search" /\ last.exc = "" /\ ~use_faiss) =>
        /\ \A i, j \in 1..Len(last.results) :
              (i < j /\ last.results[i].score = last.results[j].score)
                  => ListIndex(ScanIds, last.results[i].id)
                        < ListIndex(ScanIds, last.results[j].id)
        /\ \A k \in 1..Len(ScanIds) :
              (Eligible(k) /\ \A i \in 1..Len(last.results) : last.results[i].id # ScanIds[k])
                  => \A i \in 1..Len(last.results) :
                        last.results[i].score
                              = cosine_similarity(encode(last.query), ScanEmbedding(k))
                            => ListIndex(ScanIds, last.results[i].id) < k - 1

\* C21: with the calls on one id not overlapping, in every state, between the
\* steps of a call and after a delete that failed between its steps included,
\* every snapshot in vectors_history is of a record the store holds; and the
\* snapshots of an id only ever get fewer in a step of a delete of that id.
C21_HistoryRefersToStoredRecords ==
    /\ [](\A k \in 1..Len(vectors_history) : vectors_history[k].vector_id \in StoreIds)
    /\ [][\A id \in 1..MaxIds :
            Len(SelectSeq(vectors_history', LAMBDA r : r.vector_id = id))
                  < Len(SelectSeq(vectors_history, LAMBDA r : r.vector_id = id))
              => \/ \E t \in Threads : /\ thr[t].pc = "idle"
                                        /\ thr'[t].pc = "delete" /\ thr'[t].id = id
                 \/ last'.op = "delete" /\ last'.id = id /\ last'.exc = "StoreFailure"]_vars

\* C21 witness: the only record ever added was updated, and a delete of it failed
\* after it had removed the snapshot: the record is there, without history
C21_Witness ==
    /\ last.op = "delete" /\ last.exc = "StoreFailure" /\ nextId = 2 /\ now >= 1
    /\ last.id \in StoreIds /\ vectors_history = <<>>

\* C22: when FAISSIndex.build_index() (or the constructor, which calls it) has
\* returned, the object describes the records of that scan and nothing else:
\* id_to_idx and idx_to_id are inverse to each other over the scanned ids and the
\* slots 0..n-1, and vectors and metadata hold the embedding and the metadata of
\* the record of each slot; a rebuild over a store that has become empty included.
C22_BuildIndexDescribesTheScan ==
    last.op \in {"FAISSIndex", "build_index"} =>
        LET all_vectors == get_all(vectors, NoneMeta)
            n == Len(all_vectors)
        IN /\ DOMAIN fx.id_to_idx = {all_vectors[i].id : i \in 1..n}
           /\ DOMAIN fx.idx_to_id = 0..(n - 1)
           /\ \A id \in DOMAIN fx.id_to_idx :
                 /\ fx.id_to_idx[id] \in DOMAIN fx.idx_to_id
                 /\ fx.idx_to_id[fx.id_to_idx[id]] = id
           /\ Len(fx.vectors) = n
           /\ Len(fx.metadata) = n
           /\ \A i \in 1..n :
                 /\ fx.idx_to_id[i - 1] = all_vectors[i].id
                 /\ fx.vectors[i] = all_vectors[i].embedding
                 /\ fx.metadata[i] = all_vectors[i].meta

\* C23: a call of update or delete that returns False leaves the record store, the
\* version history and the index as they were before it; an update that returns
\* False has written no snapshot. In either class.
C23_FalseMeansNothingChanged ==
    [][(last'.op \in {"update", "delete"} /\ last'.exc = "" /\ ~last'.ok) =>
          UNCHANGED <<vectors, vectors_history, index, id_map,
                      vectors_mem, metadata_mem>>]_vars

\* what the constructed store holds under this id: text, metadata and embedding, the
\* in-memory class pairing metadata[k] with vectors[k]
RecordsOf(id) ==
    IF backend = "supabase"
    THEN LET rows == SelectEq(vectors, id)
         IN [k \in 1..Len(rows) |->
                [text |-> rows[k].text, meta |-> rows[k].meta,
                 embedding |-> rows[k].embedding]]
    ELSE LET at == SelectSeq([k \in 1..Len(metadata_mem) |-> k],
                             LAMBDA k : metadata_mem[k].id = id)
         IN [j \in 1..Len(at) |->
                [text |-> metadata_mem[at[j]].text, meta |-> metadata_mem[at[j]].meta,
                 embedding |-> vectors_mem[at[j]]]]

\* C24: update(id, ...) and delete(id) change nothing of another id: its text,
\* metadata and embedding (in memory, the vector paired with its metadata entry) and
\* its snapshots stay as they were; an update with text alone keeps the record's
\* metadata, an update with metadata alone keeps its text and embedding.
C24_UpdateAndDeleteFrame ==
    [][\A id \in 0..MaxIds :
          last'.op \in {"update", "delete"} /\ last'.exc \in {"", "KeyError"}
            /\ last'.id = id =>
              /\ \A other \in (1..MaxIds) \ {id} :
                    /\ RecordsOf(other)' = RecordsOf(other)
                    /\ HistoryOf(other)' = HistoryOf(other)
              /\ last'.op = "update" /\ last'.existed =>
                    LET before == RecordsOf(id)[1]
                        after == RecordsOf(id)'[1]
                    IN /\ Len(RecordsOf(id)') = 1
                       /\ last'.hasText /\ ~last'.hasMeta => after.meta = before.meta
                       /\ last'.hasMeta /\ ~last'.hasText =>
                             /\ after.text = before.text
                             /\ after.embedding = before.embedding]_vars
\* a text-only update of a record that has metadata, beside a record with a snapshot
C24_Witness ==
    /\ backend = "supabase"
    /\ last.op = "update" /\ last.ok /\ last.hasText /\ ~last.hasMeta
    /\ Len(vectors) = 2
    /\ RecordsOf(last.id)[1].meta = MetaX /\ RecordsOf(last.id)[1].text = "a"
    /\ \E other \in StoreIds \ {last.id} :
          /\ HistoryOf(other) # <<>>
          /\ RecordsOf(other)[1].text = "b"
====
